---- MODULE Spec2Model ----
(***************************************************************************)
(* Model of hack-btc/script.cc: the Base58 codec (encode_base58,           *)
(* decode_base58), the derivation-path search (check_seed_phrase) and the  *)
(* program (main) that owns the secp256k1 context.                         *)
(*                                                                         *)
(* A std::string is a sequence of character codes (0..255), a byte vector  *)
(* a sequence of 0..255.  C++ indices are 0-based; the sequences here are  *)
(* 1-based, so the element the code calls x[i] is x[i + 1].                *)
(***************************************************************************)
EXTENDS Integers, Sequences, FiniteSets, TLC

\* ------------------------------------------------------------------------
\* Integer widths
\* ------------------------------------------------------------------------
U8(x) == x % 256

U16(x) == x % 65536

\* ------------------------------------------------------------------------
\* Base58 alphabet
\* ------------------------------------------------------------------------
\* using LegacyBtcAddr = std::array<uint8_t, 25>
AddrLen == 25

\* "123456789ABCDEFGHJKLMNPQRSTUVWXYZabcdefghijkmnopqrstuvwxyz" as ASCII codes
BASE58_CHARS ==
  << 49, 50, 51, 52, 53, 54, 55, 56, 57,
     65, 66, 67, 68, 69, 70, 71, 72,
     74, 75, 76, 77, 78,
     80, 81, 82, 83, 84, 85, 86, 87, 88, 89, 90,
     97, 98, 99, 100, 101, 102, 103, 104, 105, 106, 107,
     109, 110, 111, 112, 113, 114, 115, 116, 117, 118, 119, 120, 121, 122 >>

\* The character '1', the digit 0 of the alphabet.
ONE == BASE58_CHARS[1]

\* A null pointer result of strchr.
nullptr == -1

\* strchr(BASE58_CHARS, c) - BASE58_CHARS.  The terminating NUL of the literal
\* is part of the string strchr searches, so c = 0 is found at offset 58.
strchr(c) ==
  IF c = 0 THEN Len(BASE58_CHARS)
  ELSE IF \E p \in 1..Len(BASE58_CHARS) : BASE58_CHARS[p] = c
       THEN (CHOOSE p \in 1..Len(BASE58_CHARS) : BASE58_CHARS[p] = c) - 1
       ELSE nullptr

\* BASE58_CHARS[d]: the character of digit d (offset 58 is the terminator).
CharAt(d) == IF d < Len(BASE58_CHARS) THEN BASE58_CHARS[d + 1] ELSE 0

\* ------------------------------------------------------------------------
\* encode_base58
\* ------------------------------------------------------------------------
\* Variant: the count stops before the last byte, as in encoders that keep one
\* byte for the conversion (zeros + 1 < input.size()).
RECURSIVE CountZerosKeepLast(_, _)
CountZerosKeepLast(input, zeros) ==
  IF zeros + 1 < Len(input) /\ input[zeros + 1] = 0
  THEN CountZerosKeepLast(input, zeros + 1)
  ELSE zeros

\* while (zeros < input.size() && input[zeros] == 0) zeros++;
RECURSIVE CountZeros(_, _)
CountZeros(input, zeros) ==
  IF zeros < Len(input) /\ input[zeros + 1] = 0
  THEN CountZeros(input, zeros + 1)
  ELSE zeros

\* carry += (uint16_t)b[j] << 8 : the int value before it is stored in carry
EncSum(carry, bj) == carry + bj * 256

\* carry % 58 : the base-58 digit stored in b
EncDigit(carry) == carry % 58

\* carry /= 58
EncQuot(carry) == carry \div 58

\* the reversed digits of b mapped through the alphabet
RECURSIVE EncTail(_, _)
EncTail(b, n) ==
  IF n = 0 THEN <<>> ELSE <<CharAt(b[n])>> \o EncTail(b, n - 1)

\* result.append(zeros, '1'); then the digits, most significant first
EncBuild(zeros, b) == [q \in 1..zeros |-> ONE] \o EncTail(b, Len(b))

\* The state of encode_base58 on entry to the conversion loop.
EncInit(input) ==
  [ pc     |-> "outer",
    input  |-> input,
    zeros  |-> CountZeros(input, 0),
    i      |-> CountZeros(input, 0),
    j      |-> 0,
    carry  |-> 0,
    sum    |-> 0,
    b      |-> <<>>,
    result |-> <<>> ]

\* One step of encode_base58: a loop test, or one pass of a loop body.
EncStep(s) ==
  CASE s.pc = "outer" ->
         IF s.i < Len(s.input)
         THEN [s EXCEPT !.carry = s.input[s.i + 1], !.j = 0, !.pc = "inner"]
         ELSE [s EXCEPT !.pc = "build"]
    [] s.pc = "inner" ->
         IF s.j < Len(s.b)
         THEN LET sum == EncSum(s.carry, s.b[s.j + 1])
                  c   == U16(sum)
              IN  [s EXCEPT !.sum = sum,
                            !.b[s.j + 1] = U8(EncDigit(c)),
                            !.carry = EncQuot(c),
                            !.j = s.j + 1]
         ELSE [s EXCEPT !.pc = "push"]
    [] s.pc = "push" ->
         IF s.carry > 0
         THEN [s EXCEPT !.b = Append(s.b, U8(EncDigit(s.carry))),
                        !.carry = EncQuot(s.carry)]
         ELSE [s EXCEPT !.i = s.i + 1, !.pc = "outer"]
    [] s.pc = "build" ->
         [s EXCEPT !.result = EncBuild(s.zeros, s.b), !.pc = "done"]
    [] OTHER -> s

RECURSIVE EncInner(_)
EncInner(s) == IF s.pc \in {"inner", "push"} THEN EncInner(EncStep(s)) ELSE s

RECURSIVE EncRun(_)
EncRun(s) == IF s.pc = "done" THEN s ELSE EncRun(EncInner(EncStep(s)))

encode_base58(input) == EncRun(EncInit(input)).result

\* ------------------------------------------------------------------------
\* decode_base58
\* ------------------------------------------------------------------------
InvalidCharacter == "Invalid base58 character"

InvalidLength == "Invalid address length after decode"

\* uint32_t carry = (uint32_t)bn[i] * 58 + digit  (at most 65535 * 59, no wrap)
DecCarry(bni, digit) == bni * 58 + digit

\* Variant: the carry is pushed without the test digit > 0.
DecPushAlways(bn, digit) == Append(bn, digit)

\* if (digit > 0) bn.push_back(digit);
DecPush(bn, digit) == IF digit > 0 THEN Append(bn, digit) ELSE bn

\* for (i = 0; i < input.length() && input[i] == '1' && pos < result.size(); i++)
\*   result[pos++] = 0;          -- the value of pos after the loop
RECURSIVE DecZeros(_, _)
DecZeros(input, pos) ==
  IF pos < Len(input) /\ input[pos + 1] = ONE /\ pos < AddrLen
  THEN DecZeros(input, pos + 1)
  ELSE pos

\* for (it = bn.rbegin(); it != bn.rend() && pos < result.size(); ++it)
\*   result[pos++] = *it;        -- the number of elements copied
DecCopied(bn, pos) ==
  IF Len(bn) < AddrLen - pos THEN Len(bn) ELSE AddrLen - pos

\* Variant: bn copied from its first element (little-endian) instead of rbegin.
DecResultForward(bn, pos) ==
  [q \in 1..AddrLen |->
     IF q > pos /\ q <= pos + DecCopied(bn, pos)
     THEN U8(bn[q - pos])
     ELSE 0]

\* result after both copy loops: zeros up to pos, then bn from its last element
DecResult(bn, pos) ==
  [q \in 1..AddrLen |->
     IF q > pos /\ q <= pos + DecCopied(bn, pos)
     THEN U8(bn[Len(bn) - (q - pos) + 1])
     ELSE 0]

\* if (pos != result.size()) throw
DecLengthOk(pos) == pos = AddrLen

DecInit(input) ==
  [ pc     |-> "char",
    input  |-> input,
    n      |-> 0,
    digit  |-> 0,
    i      |-> 0,
    bn     |-> <<>>,
    pos    |-> 0,
    result |-> [q \in 1..AddrLen |-> 0],
    err    |-> "none" ]

\* One step of decode_base58.
DecStep(s) ==
  CASE s.pc = "char" ->
         IF s.n < Len(s.input)
         THEN LET p == strchr(s.input[s.n + 1])
              IN  IF p = nullptr
                  THEN [s EXCEPT !.pc = "throw", !.err = InvalidCharacter]
                  ELSE [s EXCEPT !.digit = p, !.i = 0, !.pc = "mul"]
         ELSE [s EXCEPT !.pc = "zeros"]
    [] s.pc = "mul" ->
         IF s.i < Len(s.bn)
         THEN LET carry == DecCarry(s.bn[s.i + 1], s.digit)
              IN  [s EXCEPT !.bn[s.i + 1] = carry % 256,
                            !.digit = U16(carry \div 256),
                            !.i = s.i + 1]
         ELSE [s EXCEPT !.bn = DecPush(s.bn, s.digit),
                        !.n = s.n + 1,
                        !.pc = "char"]
    [] s.pc = "zeros" ->
         [s EXCEPT !.pos = DecZeros(s.input, 0), !.pc = "bytes"]
    [] s.pc = "bytes" ->
         [s EXCEPT !.result = DecResult(s.bn, s.pos),
                   !.pos = s.pos + DecCopied(s.bn, s.pos),
                   !.pc = "check"]
    [] s.pc = "check" ->
         IF DecLengthOk(s.pos)
         THEN [s EXCEPT !.pc = "done"]
         ELSE [s EXCEPT !.pc = "throw", !.err = InvalidLength]
    [] OTHER -> s

RECURSIVE DecInner(_)
DecInner(s) == IF s.pc = "mul" THEN DecInner(DecStep(s)) ELSE s

RECURSIVE DecRun(_)
DecRun(s) ==
  IF s.pc \in {"done", "throw"} THEN s ELSE DecRun(DecInner(DecStep(s)))

\* The outcome of decode_base58: the exception thrown ("none" on return) and
\* the array returned (nothing is returned when it throws).
decode_base58(input) ==
  LET s == DecRun(DecInit(input))
  IN  [err |-> s.err, result |-> IF s.err = "none" THEN s.result ELSE <<>>]

\* ------------------------------------------------------------------------
\* Program state
\* ------------------------------------------------------------------------
VARIABLES
  pc,          \* position of main / check_seed_phrase
  ctx,         \* the global secp256k1 context: "null", "live", "destroyed"
  released,    \* number of secp256k1_context_destroy calls
  misuse,      \* a library call was made with a context that is not live
  target,      \* target_bytes
  fam,         \* index into paths of the family being searched (1-based)
  key,         \* the HDKey `key` of the family, as its path from the master
  acct,        \* loop variable i
  chg,         \* loop variable j
  idx,         \* loop variable k
  found,       \* the value check_seed_phrase returned
  nDerived,    \* number of child derivations attempted
  lastDerived, \* the path of the last child derivation attempted
  nFailed,     \* number of attempted child derivations that were invalid
  nExamined,   \* number of addresses compared with the target
  lastExamined, \* the path whose address was compared last
  out,         \* lines written to standard output
  errout,      \* lines written to standard error
  exit,        \* <<status>> once main has returned, <<>> before and on abort
  ctxOk,       \* environment: secp256k1_context_create succeeds
  seedOk,      \* environment: the master scalar is valid
  failing,     \* environment: the child paths whose derivation is invalid
  matching,    \* environment: the paths whose address equals the target
  cpc,         \* codec harness: "input", "encoded", "decoded"
  from,        \* codec harness: "bytes" or "string" input
  bytesIn,     \* codec harness: the byte array encoded
  text,        \* codec harness: the string decoded
  decoded,     \* codec harness: the outcome of decode_base58
  enc,         \* encode_base58 in progress
  dec          \* decode_base58 in progress

progVars ==
  << pc, ctx, released, misuse, target, fam, key, acct, chg, idx, found,
     nDerived, lastDerived, nFailed, nExamined, lastExamined, out, errout, exit,
     ctxOk, seedOk, failing, matching >>

codecVars == << cpc, from, bytesIn, text, decoded >>

loopVars == << enc, dec >>

vars == << progVars, codecVars, loopVars >>

\* ------------------------------------------------------------------------
\* HD keys.  A key is a deterministic function of the seed and of the path
\* of indices it was derived by, so a key is modelled as that path.  The
\* outcomes of the external library (scalar validity, address equality) are
\* fixed per path by the environment.
\* ------------------------------------------------------------------------
\* A uint32 index: bit 31 (0x80000000) and the low 31 bits.
Hard(n) == [h |-> TRUE, n |-> n]

Soft(n) == [h |-> FALSE, n |-> n]

\* Variant: an invalid child is retried with the next index, as the exception
\* text suggests, instead of throwing.
derive_child_retry(parent, index) ==
  LET child == Append(parent, index)
      next  == Append(parent, [index EXCEPT !.n = @ + 1])
  IN  IF child \notin failing
      THEN [ok |-> TRUE, key |-> child, tried |-> <<child>>]
      ELSE [ok |-> next \notin failing, key |-> next, tried |-> <<child, next>>]

\* HDKey::derive_child: the child key, ok = FALSE when secp256k1_ec_seckey_tweak_add
\* rejects it and the function throws; tried lists the child paths attempted.
derive_child(parent, index) ==
  LET child == Append(parent, index)
  IN  [ok |-> child \notin failing, key |-> child, tried |-> <<child>>]

\* A chain key.derive_child(a).derive_child(b)... : stops at the first throw.
RECURSIVE DeriveChain(_, _)
DeriveChain(parent, idxs) ==
  IF idxs = <<>>
  THEN [ok |-> TRUE, key |-> parent, tried |-> <<>>]
  ELSE LET r == derive_child(parent, Head(idxs))
       IN  IF ~r.ok
           THEN r
           ELSE LET t == DeriveChain(r.key, Tail(idxs))
                IN  [t EXCEPT !.tried = r.tried \o @]

\* address_key.get_address() == target_address
Matches(k) == k \in matching

\* ------------------------------------------------------------------------
\* check_seed_phrase
\* ------------------------------------------------------------------------
mnemonic == "rescue account rookie remember dose ice donor organ head eyebrow obvious seven"

\* Purpose, Coin type of each family; the empty path is the legacy family.
paths ==
  << <<Hard(44), Hard(0)>>,
     <<Hard(49), Hard(0)>>,
     <<Hard(84), Hard(0)>>,
     <<>> >>

is_legacy(f) == Len(paths[f]) = 0

\* Variant: the legacy family iterated over the accounts like the others.
NumAccountsUniform(f) == 20

\* i < (is_legacy ? 1 : 20)
NumAccounts(f) == IF is_legacy(f) THEN 1 ELSE 20

\* j < 2
NumChange == 2

\* k < 20
NumIndex == 20

\* (is_legacy ? key : key.derive_child(0x80000000 | i)).derive_child(j).derive_child(k)
CandidateChain(f, i, j, k) ==
  IF is_legacy(f) THEN <<Soft(j), Soft(k)>> ELSE <<Hard(i), Soft(j), Soft(k)>>

\* The line printed for a match: mnemonic, "/" path_part..., "/" i, "/" j, "/" k
MatchLine(f, i, j, k) ==
  [ mnemonic |-> mnemonic,
    parts    |-> paths[f] \o (IF is_legacy(f) THEN <<>> ELSE <<Soft(i)>>)
                          \o <<Soft(j), Soft(k)>> ]

\* The loop nest after a candidate that did not match: the next (i, j, k), or
\* the end of the family.
NextPos(f, i, j, k) ==
  IF k + 1 < NumIndex THEN [more |-> TRUE, i |-> i, j |-> j, k |-> k + 1]
  ELSE IF j + 1 < NumChange THEN [more |-> TRUE, i |-> i, j |-> j + 1, k |-> 0]
  ELSE IF i + 1 < NumAccounts(f) THEN [more |-> TRUE, i |-> i + 1, j |-> 0, k |-> 0]
  ELSE [more |-> FALSE, i |-> 0, j |-> 0, k |-> 0]

\* What the search does after comparing a candidate: return true on a match.
StopsSearch(matched) == matched

\* A library call that takes the global context.
UsesCtx == IF ctx = "live" THEN misuse ELSE TRUE

\* The counters of the child derivations attempted.
FailedIn(tried) == Cardinality({n \in 1..Len(tried) : tried[n] \in failing})

\* The target literal "1Lme4nrYHRChHwrpVHJTajEXGQjZv72GyS".
TargetLiteral ==
  << 49, 76, 109, 101, 52, 110, 114, 89, 72, 82, 67, 104, 72, 119, 114, 112, 86,
     72, 74, 84, 97, 106, 69, 88, 71, 81, 106, 90, 118, 55, 50, 71, 121, 83 >>

ContextError == "Failed to create secp256k1 context"

\* throw std::runtime_error("Invalid private key generated from seed");
InvalidSeedKey == "Invalid private key generated from seed"

\* throw std::runtime_error("Invalid child key - retry with next index");
InvalidChildKey == "Invalid child key - retry with next index"

\* assert(target_bytes[0] == 0): the line the failed assertion writes (after
\* the program name and the source position) before it aborts.
TargetNotVersionZero == "Assertion `target_bytes[0] == 0' failed."

\* main has no try block: a std::runtime_error that leaves it reaches
\* std::terminate, whose handler writes these two lines to standard error and
\* aborts.
Terminate(what) ==
  << "terminate called after throwing an instance of 'std::runtime_error'",
     "  what():  " \o what >>

\* ------------------------------------------------------------------------
\* main
\* ------------------------------------------------------------------------
\* ctx = secp256k1_context_create(...); if (ctx == nullptr) { cerr << ...; return 1; }
CreateContext ==
  /\ pc = "start"
  /\ IF ctxOk
     THEN /\ ctx' = "live"
          /\ pc' = "decode"
          /\ UNCHANGED << errout, exit >>
     ELSE /\ errout' = Append(errout, ContextError)
          /\ exit' = <<1>>
          /\ pc' = "exited"
          /\ UNCHANGED ctx
  /\ UNCHANGED << released, misuse, target, fam, key, acct, chg, idx, found,
                  nDerived, lastDerived, nFailed, nExamined, lastExamined, out,
                  ctxOk, seedOk, failing, matching >>
  /\ UNCHANGED << codecVars, loopVars >>

\* target_bytes = decode_base58("1Lme..."); assert(target_bytes[0] == 0);
\* An exception leaves main uncaught: std::terminate aborts the process.
DecodeTarget ==
  /\ pc = "decode"
  /\ LET r == decode_base58(TargetLiteral)
     IN  IF r.err = "none" /\ r.result[1] = 0
         THEN /\ target' = r.result
              /\ pc' = "seed"
              /\ UNCHANGED errout
         ELSE /\ pc' = "aborted"
              /\ errout' = errout \o (IF r.err = "none" THEN <<TargetNotVersionZero>>
                                      ELSE Terminate(r.err))
              /\ UNCHANGED target
  /\ UNCHANGED << ctx, released, misuse, fam, key, acct, chg, idx, found,
                  nDerived, lastDerived, nFailed, nExamined, lastExamined, out, exit,
                  ctxOk, seedOk, failing, matching >>
  /\ UNCHANGED << codecVars, loopVars >>

\* check_seed_phrase: seed_from_phrase, HDKey::from_seed (throws on an invalid
\* master scalar; nothing catches it).
FromSeed ==
  /\ pc = "seed"
  /\ misuse' = UsesCtx
  /\ IF seedOk
     THEN /\ pc' = "family"
          /\ fam' = 1
          /\ UNCHANGED errout
     ELSE /\ pc' = "aborted"
          /\ errout' = errout \o Terminate(InvalidSeedKey)
          /\ UNCHANGED fam
  /\ UNCHANGED << ctx, released, target, key, acct, chg, idx, found,
                  nDerived, lastDerived, nFailed, nExamined, lastExamined, out, exit,
                  ctxOk, seedOk, failing, matching >>
  /\ UNCHANGED << codecVars, loopVars >>

\* for (path : paths) { key = master_key; for (index : path) key = key.derive_child(index);
DerivePath ==
  /\ pc = "family"
  /\ fam <= Len(paths)
  /\ LET r == DeriveChain(<<>>, paths[fam])
     IN  /\ nDerived' = nDerived + Len(r.tried)
         /\ nFailed' = nFailed + FailedIn(r.tried)
         /\ lastDerived' = IF r.tried = <<>> THEN lastDerived
                           ELSE r.tried[Len(r.tried)]
         /\ misuse' = IF r.tried = <<>> THEN misuse ELSE UsesCtx
         /\ IF r.ok
            THEN /\ key' = r.key
                 /\ acct' = 0
                 /\ chg' = 0
                 /\ idx' = 0
                 /\ pc' = "candidate"
                 /\ UNCHANGED errout
            ELSE /\ pc' = "aborted"
                 /\ errout' = errout \o Terminate(InvalidChildKey)
                 /\ UNCHANGED << key, acct, chg, idx >>
  /\ UNCHANGED << ctx, released, target, fam, found, nExamined, lastExamined, out,
                  exit, ctxOk, seedOk, failing, matching >>
  /\ UNCHANGED << codecVars, loopVars >>

\* The body of the innermost loop: derive the address key, compare its address.
CheckCandidate ==
  /\ pc = "candidate"
  /\ LET r == DeriveChain(key, CandidateChain(fam, acct, chg, idx))
         p == NextPos(fam, acct, chg, idx)
     IN  /\ nDerived' = nDerived + Len(r.tried)
         /\ nFailed' = nFailed + FailedIn(r.tried)
         /\ lastDerived' = r.tried[Len(r.tried)]
         /\ misuse' = UsesCtx
         /\ IF ~r.ok
            THEN /\ pc' = "aborted"
                 /\ errout' = errout \o Terminate(InvalidChildKey)
                 /\ UNCHANGED << fam, acct, chg, idx, found, nExamined, lastExamined, out >>
            ELSE /\ nExamined' = nExamined + 1
                 /\ UNCHANGED errout
                 /\ lastExamined' = r.key
                 /\ out' = IF Matches(r.key)
                           THEN Append(out, MatchLine(fam, acct, chg, idx))
                           ELSE out
                 /\ IF StopsSearch(Matches(r.key))
                    THEN /\ found' = TRUE
                         /\ pc' = "destroy"
                         /\ UNCHANGED << fam, acct, chg, idx >>
                    ELSE /\ acct' = p.i
                         /\ chg' = p.j
                         /\ idx' = p.k
                         /\ fam' = IF p.more THEN fam ELSE fam + 1
                         /\ pc' = IF p.more THEN "candidate" ELSE "family"
                         /\ UNCHANGED found
  /\ UNCHANGED << ctx, released, target, key, exit,
                  ctxOk, seedOk, failing, matching >>
  /\ UNCHANGED << codecVars, loopVars >>

\* The loop over paths is over: return false.
SearchExhausted ==
  /\ pc = "family"
  /\ fam > Len(paths)
  /\ found' = FALSE
  /\ pc' = "destroy"
  /\ UNCHANGED << ctx, released, misuse, target, fam, key, acct, chg, idx,
                  nDerived, lastDerived, nFailed, nExamined, lastExamined, out, errout, exit,
                  ctxOk, seedOk, failing, matching >>
  /\ UNCHANGED << codecVars, loopVars >>

\* secp256k1_context_destroy(ctx);
DestroyContext ==
  /\ pc = "destroy"
  /\ misuse' = UsesCtx
  /\ ctx' = "destroyed"
  /\ released' = released + 1
  /\ pc' = "return"
  /\ UNCHANGED << target, fam, key, acct, chg, idx, found,
                  nDerived, lastDerived, nFailed, nExamined, lastExamined, out, errout, exit,
                  ctxOk, seedOk, failing, matching >>
  /\ UNCHANGED << codecVars, loopVars >>

\* return found ? 0 : 1;
Return ==
  /\ pc = "return"
  /\ exit' = <<IF found THEN 0 ELSE 1>>
  /\ pc' = "exited"
  /\ UNCHANGED << ctx, released, misuse, target, fam, key, acct, chg, idx, found,
                  nDerived, lastDerived, nFailed, nExamined, lastExamined, out, errout,
                  ctxOk, seedOk, failing, matching >>
  /\ UNCHANGED << codecVars, loopVars >>

\* ------------------------------------------------------------------------
\* The program: one run of main per environment
\* ------------------------------------------------------------------------
\* Environments: which paths carry the target address ...
MatchSamples ==
  { {},
    { <<Hard(44), Hard(0), Hard(0), Soft(0), Soft(0)>> },
    { <<Hard(49), Hard(0), Hard(7), Soft(1), Soft(13)>> },
    { <<Hard(44), Hard(0), Hard(3), Soft(1), Soft(7)>>,
      <<Hard(44), Hard(0), Hard(3), Soft(0), Soft(19)>> },
    { <<Hard(84), Hard(0), Hard(19), Soft(1), Soft(19)>>, <<Soft(0), Soft(0)>> },
    { <<Soft(1), Soft(19)>> },
    { <<Hard(44), Hard(0), Hard(20), Soft(0), Soft(0)>> },
    { <<Hard(44), Hard(0), Soft(3), Soft(1), Soft(7)>>, <<Soft(0), Soft(20)>> } }

\* ... and which child derivations the library rejects.
FailSamples ==
  { {},
    { <<Hard(44)>> },
    { <<Hard(49), Hard(0)>> },
    { <<Hard(44), Hard(0), Hard(2)>> },
    { <<Hard(84), Hard(0), Hard(5), Soft(1)>> },
    { <<Hard(44), Hard(0), Hard(3), Soft(1), Soft(7)>> },
    { <<Soft(1), Soft(3)>> },
    { <<Soft(2)>>, <<Hard(44), Hard(1)>> } }

IdleCodec ==
  /\ cpc = "idle"
  /\ from = "none"
  /\ bytesIn = <<>>
  /\ text = <<>>
  /\ decoded = [err |-> "none", result |-> <<>>]

IdleLoops ==
  /\ enc = [pc |-> "idle"]
  /\ dec = [pc |-> "idle"]

IdleProgram ==
  /\ pc = "idle"
  /\ ctx = "null"
  /\ released = 0
  /\ misuse = FALSE
  /\ target = <<>>
  /\ fam = 0
  /\ key = <<>>
  /\ acct = 0
  /\ chg = 0
  /\ idx = 0
  /\ found = FALSE
  /\ nDerived = 0
  /\ lastDerived = <<>>
  /\ nFailed = 0
  /\ nExamined = 0
  /\ lastExamined = <<>>
  /\ out = <<>>
  /\ errout = <<>>
  /\ exit = <<>>
  /\ ctxOk = TRUE
  /\ seedOk = TRUE
  /\ failing = {}
  /\ matching = {}

Init ==
  /\ pc = "start"
  /\ ctx = "null"
  /\ released = 0
  /\ misuse = FALSE
  /\ target = <<>>
  /\ fam = 0
  /\ key = <<>>
  /\ acct = 0
  /\ chg = 0
  /\ idx = 0
  /\ found = FALSE
  /\ nDerived = 0
  /\ lastDerived = <<>>
  /\ nFailed = 0
  /\ nExamined = 0
  /\ lastExamined = <<>>
  /\ out = <<>>
  /\ errout = <<>>
  /\ exit = <<>>
  /\ ctxOk \in BOOLEAN
  /\ seedOk \in BOOLEAN
  /\ failing \in FailSamples
  /\ matching \in MatchSamples
  /\ IdleCodec
  /\ IdleLoops

Next ==
  \/ CreateContext
  \/ DecodeTarget
  \/ FromSeed
  \/ DerivePath
  \/ CheckCandidate
  \/ SearchExhausted
  \/ DestroyContext
  \/ Return

Spec == Init /\ [][Next]_vars

\* ------------------------------------------------------------------------
\* The codec on its own: encode_base58 and decode_base58 applied to inputs
\* ------------------------------------------------------------------------
\* Longest free part of a generated input.
MaxShort == 2

\* How far around the address width the generated lengths go.
Margin == 2

ByteSamples == {0, 1, 58, 128, 255}

FillSamples == {0, 255}

\* '1', '2', 'z', NUL, '0' (the last two are not base58 digits)
CharSamples == {49, 50, 122, 0, 48}

RepSamples == {50, 122}

Rep(v, n) == [q \in 1..n |-> v]

SeqsUpTo(S, n) == UNION {[1..m -> S] : m \in 0..n}

\* 25-byte arrays: z zero bytes, a free part, a filler
AddrInputs ==
  { Rep(0, z) \o t \o Rep(f, AddrLen - z - Len(t)) :
      z \in 0..(AddrLen - MaxShort), t \in SeqsUpTo(ByteSamples, MaxShort),
      f \in FillSamples }

ByteInputs == SeqsUpTo(ByteSamples, MaxShort) \cup AddrInputs

\* strings around the width of an address: runs of '1', runs of a digit
StringInputs ==
  SeqsUpTo(CharSamples, MaxShort)
  \cup { Rep(ONE, a) \o t :
           a \in (AddrLen - Margin)..(AddrLen + Margin),
           t \in SeqsUpTo(CharSamples, MaxShort) }
  \cup { t \o Rep(c, k) :
           t \in SeqsUpTo(CharSamples, MaxShort), c \in RepSamples,
           k \in (Len(TargetLiteral) - Margin)..(Len(TargetLiteral) + Margin) }

InitCodec ==
  /\ cpc = "input"
  /\ \/ /\ from = "bytes"
        /\ bytesIn \in ByteInputs
        /\ text = <<>>
     \/ /\ from = "string"
        /\ bytesIn = <<>>
        /\ text \in StringInputs
  /\ decoded = [err |-> "none", result |-> <<>>]
  /\ IdleProgram
  /\ IdleLoops

\* text = encode_base58(bytesIn)
Encode ==
  /\ cpc = "input"
  /\ from = "bytes"
  /\ text' = encode_base58(bytesIn)
  /\ cpc' = "encoded"
  /\ UNCHANGED << from, bytesIn, decoded >>
  /\ UNCHANGED << progVars, loopVars >>

\* decoded = decode_base58(text), or the exception it throws
Decode ==
  /\ \/ cpc = "input" /\ from = "string"
     \/ cpc = "encoded"
  /\ decoded' = decode_base58(text)
  /\ cpc' = "decoded"
  /\ UNCHANGED << from, bytesIn, text >>
  /\ UNCHANGED << progVars, loopVars >>

NextCodec ==
  \/ Encode
  \/ Decode

SpecCodec == InitCodec /\ [][NextCodec]_vars

\* ------------------------------------------------------------------------
\* The codec loops, one step at a time
\* ------------------------------------------------------------------------
\* Longest input taken through the loops in full.
MaxLoop == 3

LoopBytes ==
  SeqsUpTo(ByteSamples, MaxLoop)
  \cup { Rep(0, z) \o Rep(f, AddrLen - z) : z \in {0, 1}, f \in ByteSamples }

LoopStrings ==
  SeqsUpTo(CharSamples, MaxLoop)
  \cup { Rep(c, k) : c \in RepSamples \cup {0},
                     k \in {Len(TargetLiteral), Len(TargetLiteral) + Margin} }
  \cup { TargetLiteral }

InitLoops ==
  /\ \/ /\ enc \in {EncInit(b) : b \in LoopBytes}
        /\ dec = [pc |-> "idle"]
     \/ /\ enc = [pc |-> "idle"]
        /\ dec \in {DecInit(t) : t \in LoopStrings}
  /\ IdleProgram
  /\ IdleCodec

EncodeStep ==
  /\ enc.pc \notin {"idle", "done"}
  /\ enc' = EncStep(enc)
  /\ UNCHANGED dec
  /\ UNCHANGED << progVars, codecVars >>

\* decode_base58 called on what encode_base58 returned
StartDecode ==
  /\ enc.pc = "done"
  /\ dec.pc = "idle"
  /\ dec' = DecInit(enc.result)
  /\ UNCHANGED enc
  /\ UNCHANGED << progVars, codecVars >>

DecodeStep ==
  /\ dec.pc \notin {"idle", "done", "throw"}
  /\ dec' = DecStep(dec)
  /\ UNCHANGED enc
  /\ UNCHANGED << progVars, codecVars >>

NextLoops ==
  \/ EncodeStep
  \/ StartDecode
  \/ DecodeStep

SpecLoops == InitLoops /\ [][NextLoops]_vars

\* ------------------------------------------------------------------------
\* Reference notions used by the properties (not taken from the code)
\* ------------------------------------------------------------------------
\* Length of the longest prefix of s whose elements all equal v.
LeadingRun(s, v) ==
  CHOOSE n \in 0..Len(s) :
    /\ \A m \in 1..n : s[m] = v
    /\ n = Len(s) \/ s[n + 1] # v

Alphabet == {BASE58_CHARS[p] : p \in 1..Len(BASE58_CHARS)}

AllAlphabet(s) == \A n \in 1..Len(s) : s[n] \in Alphabet

\* The base-58 digit a character of the alphabet stands for.
DigitOf(c) == (CHOOSE p \in 1..Len(BASE58_CHARS) : BASE58_CHARS[p] = c) - 1

\* Long division of a base-58 numeral (most significant digit first) by 256:
\* the quotient numeral, given the remainder carried in.
RECURSIVE QuotBy256(_, _)
QuotBy256(ds, rem) ==
  IF ds = <<>> THEN <<>>
  ELSE LET cur == rem * 58 + Head(ds)
       IN  <<cur \div 256>> \o QuotBy256(Tail(ds), cur % 256)

\* A numeral without its leading zero digits.
StripZeros(ds) == SubSeq(ds, LeadingRun(ds, 0) + 1, Len(ds))

\* Number of base-256 digits of the value of a base-58 numeral (0 for zero).
RECURSIVE ByteLength(_)
ByteLength(ds) ==
  LET t == StripZeros(ds)
  IN  IF t = <<>> THEN 0 ELSE 1 + ByteLength(QuotBy256(t, 0))

\* Byte count a string of alphabet characters stands for: one zero byte per
\* leading '1', plus the base-256 bytes of its value.
ReconstructedCount(s) ==
  LeadingRun(s, ONE) + ByteLength([n \in 1..Len(s) |-> DigitOf(s[n])])

\* The candidate space of the search as the specification states it.
ExpectedPaths ==
  { <<Hard(p), Hard(0), Hard(a), Soft(c), Soft(k)>> :
      p \in {44, 49, 84}, a \in 0..19, c \in 0..1, k \in 0..19 }
  \cup { <<Soft(c), Soft(k)>> : c \in 0..1, k \in 0..19 }

\* Position of a candidate in the enumeration order: family BIP44, BIP49,
\* BIP84, legacy; then account, change, index ascending.
Rank(path) ==
  IF Len(path) = 2
  THEN 2400 + path[1].n * 20 + path[2].n
  ELSE (CASE path[1].n = 44 -> 0 [] path[1].n = 49 -> 800 [] OTHER -> 1600)
       + path[3].n * 40 + path[4].n * 20 + path[5].n

\* Child derivations the search performs up to and including candidate `path`.
DerivationsThrough(path) ==
  IF Len(path) = 2
  THEN 6 + 3 * 2400 + 2 * (Rank(path) - 2400 + 1)
  ELSE 2 * ((Rank(path) \div 800) + 1) + 3 * (Rank(path) + 1)

\* The candidates that carry the target address, and the first of them.
Hits == matching \cap ExpectedPaths

FirstHit == CHOOSE m \in Hits : \A o \in Hits : Rank(m) <= Rank(o)

\* The comparisons follow the enumeration order: the n-th address compared is
\* that of the candidate of rank n - 1.
ComparedInOrder ==
  nExamined > 0 =>
    (lastExamined \in ExpectedPaths /\ Rank(lastExamined) = nExamined - 1)

\* check_seed_phrase has returned to main.
Returned == pc \in {"destroy", "return"} \/ (pc = "exited" /\ ctxOk)

\* ------------------------------------------------------------------------
\* Properties
\* ------------------------------------------------------------------------
\* C1: decode_base58 fails with the invalid-length error for every string of
\* alphabet characters whose reconstructed byte count (leading '1's plus the
\* base-256 bytes of the value) is not 25, smaller or larger.
C1_InvalidLength ==
  (cpc = "decoded" /\ AllAlphabet(text) /\ ReconstructedCount(text) # AddrLen)
    => decoded.err = InvalidLength

\* C2: for every 25-byte array B, decode_base58(encode_base58(B)) returns
\* exactly B and raises no error.
C2_RoundTrip ==
  (cpc = "decoded" /\ from = "bytes" /\ Len(bytesIn) = AddrLen)
    => (decoded.err = "none" /\ decoded.result = bytesIn)

C2_Witness ==
  /\ cpc = "decoded"
  /\ from = "bytes"
  /\ Len(bytesIn) = AddrLen
  /\ LeadingRun(bytesIn, 0) = 3
  /\ bytesIn[AddrLen] = 255
  /\ decoded.result = bytesIn

\* C3: after a successful acquisition the context is released exactly once on
\* every exit path (normal return or fatal error), never twice, and no library
\* call uses it when it is not live.
C3_ReleasedOnEveryExit ==
  /\ (pc \in {"exited", "aborted"} /\ ctxOk) => released = 1
  /\ released <= 1
  /\ ~misuse

\* C4: exit status 0 on a match, 1 on exhaustion without a match; when the
\* context cannot be created an error message goes to standard error and the
\* exit status is neither 0 nor the no-match status 1.
C4_ExitStatus ==
  pc = "exited" =>
    IF ctxOk
    THEN exit = <<IF found THEN 0 ELSE 1>>
    ELSE errout # <<>> /\ exit # <<>> /\ exit[1] \notin {0, 1}

\* C5: when no candidate carries the target address the search returns false,
\* and whenever it returns false it has compared exactly the 2440 paths of the
\* candidate space, each once: the n-th comparison is always the candidate of
\* rank n - 1, the ranks number the 2440 expected paths one to one, and 2440
\* comparisons were made.
C5_Exhaustive ==
  /\ ComparedInOrder
  /\ (Returned /\ Hits = {}) => ~found
  /\ (Returned /\ ~found) =>
       /\ nExamined = 2440
       /\ Cardinality(ExpectedPaths) = 2440
       /\ {Rank(p) : p \in ExpectedPaths} = 0..2439

C5_Witness ==
  /\ pc = "exited"
  /\ ctxOk
  /\ exit = <<1>>
  /\ matching # {}
  /\ nExamined = 2440
  /\ lastExamined = <<Soft(1), Soft(19)>>

\* C6: when some candidate carries the target address the search returns true
\* at the first such candidate of the enumeration order: the candidates before
\* it were compared in order, it is the last one derived and compared, and the
\* one line printed reports its path, the indices it was derived by.
C6_FirstMatch ==
  /\ (Returned /\ Hits # {}) => found
  /\ (Returned /\ found) =>
       /\ Hits # {}
       /\ ComparedInOrder
       /\ nExamined = Rank(FirstHit) + 1
       /\ lastExamined = FirstHit
       /\ lastDerived = FirstHit
       /\ nDerived = DerivationsThrough(FirstHit)
       /\ out = << [mnemonic |-> mnemonic, parts |-> FirstHit] >>

\* C7: decode_base58 fails with the invalid-character error for every string
\* holding a character outside the 58 alphabet characters, NUL included.
C7_InvalidCharacter ==
  (cpc = "decoded" /\ ~AllAlphabet(text)) => decoded.err = InvalidCharacter

\* C8: the number of leading '1' characters of encode_base58(B) equals the
\* number of leading zero bytes of B.
C8_LeadingOnes ==
  (from = "bytes" /\ cpc \in {"encoded", "decoded"})
    => LeadingRun(text, ONE) = LeadingRun(bytesIn, 0)

C8_Witness ==
  /\ from = "bytes"
  /\ cpc = "encoded"
  /\ LeadingRun(bytesIn, 0) = 2
  /\ Len(bytesIn) > 2
  /\ Len(text) > 2
  /\ text[3] # ONE

\* C9: a child derivation that fails aborts the run at that candidate: it is
\* the last derivation attempted and the only failed one (no retry, nothing
\* derived after it), no path below it was compared, and the run reports
\* neither a match nor the no-match status: all it writes is the uncaught
\* exception's message on standard error.
C9_AbortOnInvalidChild ==
  nFailed > 0 =>
    /\ pc = "aborted"
    /\ nFailed = 1
    /\ lastDerived \in failing
    /\ ComparedInOrder
    /\ \A p \in ExpectedPaths :
         (Rank(p) < nExamined /\ Len(p) >= Len(lastDerived))
           => SubSeq(p, 1, Len(lastDerived)) # lastDerived
    /\ ~found
    /\ out = <<>>
    /\ errout = Terminate(InvalidChildKey)
    /\ exit = <<>>

C9_Witness ==
  /\ pc = "aborted"
  /\ errout = Terminate(InvalidChildKey)
  /\ nFailed = 1
  /\ Len(lastDerived) = 4
  /\ nExamined > 100

\* C10: in encode_base58 every element of b is in 0..57 and the sum stored in
\* the 16-bit carry never exceeds 65535; in decode_base58 on alphabet strings
\* every element of bn is in 0..255, the propagated digit never exceeds 57,
\* and the most significant element of a non-empty bn is not 0 once the pass
\* for a character is complete (within a pass it is 0 only at the end of the
\* multiply loop with a non-zero carry in digit, which is then pushed above it).
C10_LoopRanges ==
  /\ enc.pc # "idle" =>
       /\ \A n \in 1..Len(enc.b) : enc.b[n] \in 0..57
       /\ enc.sum <= 65535
       /\ enc.carry <= 65535
  /\ (dec.pc # "idle" /\ AllAlphabet(dec.input)) =>
       /\ \A n \in 1..Len(dec.bn) : dec.bn[n] \in 0..255
       /\ dec.digit <= 57
       /\ (dec.pc # "mul" /\ dec.bn # <<>>) => dec.bn[Len(dec.bn)] # 0
       /\ (dec.bn # <<>> /\ dec.bn[Len(dec.bn)] = 0) =>
            (dec.pc = "mul" /\ dec.i = Len(dec.bn) /\ dec.digit > 0)

\* C10 as first stated: on alphabet strings the most significant element of a
\* non-empty bn is never 0, in any state of the loops (with the ranges above).
C10_TopNeverZero ==
  /\ enc.pc # "idle" =>
       /\ \A n \in 1..Len(enc.b) : enc.b[n] \in 0..57
       /\ enc.sum <= 65535
       /\ enc.carry <= 65535
  /\ (dec.pc # "idle" /\ AllAlphabet(dec.input)) =>
       /\ \A n \in 1..Len(dec.bn) : dec.bn[n] \in 0..255
       /\ dec.digit <= 57
       /\ dec.bn # <<>> => dec.bn[Len(dec.bn)] # 0

C10_Witness ==
  /\ enc.pc = "done"
  /\ Len(enc.input) = AddrLen
  /\ \E n \in 1..Len(enc.b) : enc.b[n] = 57
  /\ dec.pc = "done"
  /\ Len(dec.bn) = AddrLen
  /\ \E n \in 1..Len(dec.bn) : dec.bn[n] = 255

====
